---------------------------- MODULE Spec2Model ----------------------------
(***************************************************************************)
(* A model of llvm/ee.py: the Python facades GenericValue, EngineBuilder,  *)
(* ExecutionEngine and TargetMachine over the native LLVM binding `api`.   *)
(*                                                                         *)
(* Each public operation of ee.py that does more than pass one call on is  *)
(* one action.  What the native library answers (a target found or not, a  *)
(* null or a fresh handle, a failed emission) is not decided by ee.py, so  *)
(* each action draws it from the set of answers the native call can give.  *)
(* An operation's outcome is the record                                    *)
(*    [status, exc, calls, ret]                                            *)
(* status "ok" or "raised", the exception raised, the native calls made    *)
(* in order, and the value returned.                                       *)
(***************************************************************************)
EXTENDS Integers, Sequences, FiniteSets, TLC

VARIABLES
    apiAttrs,     \* the initializer functions the api module has: <<target, postfix>>
    initialized,  \* the target components initialized so far: <<target, postfix>>
    firstInit,    \* history: target -> how its first initialize_target ended
    builders,     \* native EngineBuilder objects: handle -> the module it was made for
    engines,      \* native ExecutionEngine objects: handle -> what it was made from
    wrappers,     \* the EngineBuilder/ExecutionEngine/TargetMachine wrappers handed back
    nextHandle,   \* the next fresh native handle
    last          \* the last operation: its name, receiver, arguments and outcome

vars == <<apiAttrs, initialized, firstInit, builders, engines, wrappers,
          nextHandle, last>>

---------------------------------------------------------------------------
(* Bounds of the model. *)

\* Native objects (builders, engines, target machines) created in one run.
MaxHandles == 3

---------------------------------------------------------------------------
(* Python values. *)

NULL == 0

None == [cls |-> "None"]

Str(s) == [cls |-> "str", value |-> s]

Bool(b) == [cls |-> "bool", value |-> b]

NoExc == [type |-> "", args |-> <<>>]

\* An operation that returns v after the native calls `calls`.
Return(v, calls) == [status |-> "ok", exc |-> NoExc, calls |-> calls, ret |-> v]

\* An operation that raises type(*args) after the native calls `calls`.
Raise(type, args, calls) ==
    [status |-> "raised", exc |-> [type |-> type, args |-> args],
     calls |-> calls, ret |-> None]

\* Wrapper with the null check lost: any handle is wrapped.
Mut_Wrapper(cls, ptr, calls) == Return([cls |-> cls, ptr |-> ptr], calls)

\* llvm.Wrapper.__init__(ptr): a wrapper is only ever built around a
\* non-null handle.
Wrapper(cls, ptr, calls) ==
    IF ptr = NULL
    THEN Raise("AssertionError", <<>>, calls)
    ELSE Return([cls |-> cls, ptr |-> ptr], calls)

\* io.BytesIO(): an open, empty buffer.
BytesIO == [cls |-> "BytesIO", closed |-> FALSE, value |-> ""]

\* The native side writing msg into the buffer.
BufWrite(buf, msg) == [buf EXCEPT !.value = msg]

\* BytesIO.close(): the buffer is discarded.
BufClose(buf) == [buf EXCEPT !.closed = TRUE, !.value = ""]

\* BytesIO.getvalue() of an open buffer.
getvalue(buf) == Str(buf.value)

\* Leaving `with contextlib.closing(BytesIO()) as error`: error.close() runs
\* on every way out, so an exception that holds the buffer itself holds a
\* closed buffer from then on.
ClosingArgs(args) ==
    [i \in DOMAIN args |->
        IF args[i].cls = "BytesIO" THEN BufClose(args[i]) ELSE args[i]]

contextlib_closing(out) ==
    [out EXCEPT !.exc = [type |-> out.exc.type, args |-> ClosingArgs(out.exc.args)]]

---------------------------------------------------------------------------
(* Enumerations and host queries. *)

CM_DEFAULT == "CodeModel.Default"

CM_SMALL == "CodeModel.Small"

RELOC_DEFAULT == "Reloc.Default"

RELOC_PIC == "Reloc.PIC_"

\* api.llvm.sys.getHostCPUName() on the modelled host.
get_host_cpu_name == "host-cpu"

\* api.llvm.sys.getDefaultTargetTriple() on the modelled host.
get_default_triple == "host-triple"

---------------------------------------------------------------------------
(* Inputs. *)

Triples == {"", "arm-none-eabi"}

Archs == {"arm"}

Cpus == {"", "cortex-a8"}

Features == {"+neon"}

\* Optimization levels a caller may pass: the ends of the valid range and
\* the level on each side of it.
OptLevels == {-1, 0, 3, 4}

\* Optimization levels passed when making a target machine: the default and
\* one outside the valid range.
MachineOptLevels == {2, 4}

\* What TargetRegistry.lookupTarget can write into the error buffer.
NativeMsgs == {"No available targets are compatible with this triple",
               "invalid target"}

\* The triple the native lookupTarget(arch, triple, error) leaves in `triple`.
NativeTriples == {"arm-unknown-unknown"}

\* Answers of the native side to one TargetMachine.new / lookup:
\* found: lookupTarget returned a target; msg: what it wrote into the error
\* buffer otherwise; filled: the triple lookupTarget(arch, triple, error)
\* filled in; hasTM: target.hasTargetMachine(); tmNull: createTargetMachine
\* returned null.  A call that is never reached has no answer: its field
\* holds the value written here.
TargetAnswers(fills) ==
    [found : {FALSE}, msg : NativeMsgs, filled : {""},
     hasTM : {FALSE}, tmNull : {TRUE}]
    \cup [found : {TRUE}, msg : {""}, filled : fills,
          hasTM : {FALSE}, tmNull : {TRUE}]
    \cup [found : {TRUE}, msg : {""}, filled : fills,
          hasTM : {TRUE}, tmNull : BOOLEAN]

---------------------------------------------------------------------------
(* TargetMachine.new and TargetMachine.lookup. *)

Target(name) == [cls |-> "Target", name |-> name]

\* TargetMachine.new with the cpu defaulting lost.
Mut_TargetMachine_new(triple, cpu, features, opt, cm, reloc, nat, fresh) ==
    LET triple1 == IF triple = "" THEN get_default_triple ELSE triple
        error   == IF nat.found THEN BytesIO ELSE BufWrite(BytesIO, nat.msg)
        c1 == [fn |-> "lookupTarget", triple |-> triple1]
        c2 == [fn |-> "hasTargetMachine"]
        c3 == [fn |-> "createTargetMachine", triple |-> triple1, cpu |-> cpu,
               features |-> features, reloc |-> reloc, cm |-> cm, opt |-> opt]
        tm == IF nat.tmNull THEN NULL ELSE fresh
    IN contextlib_closing(
         IF ~nat.found
         THEN Raise("LLVMException", <<error>>, <<c1>>)
         ELSE IF ~nat.hasTM
         THEN Raise("LLVMException",
                    <<Target(triple1), Str("No target machine.")>>, <<c1, c2>>)
         ELSE IF tm = NULL
         THEN Raise("LLVMException", <<Str("Cannot create target machine")>>,
                    <<c1, c2, c3>>)
         ELSE Wrapper("TargetMachine", tm, <<c1, c2, c3>>))

TargetMachine_new(triple, cpu, features, opt, cm, reloc, nat, fresh) ==
    LET triple1 == IF triple = "" THEN get_default_triple ELSE triple
        cpu1    == IF cpu = "" THEN get_host_cpu_name ELSE cpu
        error   == IF nat.found THEN BytesIO ELSE BufWrite(BytesIO, nat.msg)
        c1 == [fn |-> "lookupTarget", triple |-> triple1]
        c2 == [fn |-> "hasTargetMachine"]
        c3 == [fn |-> "createTargetMachine", triple |-> triple1, cpu |-> cpu1,
               features |-> features, reloc |-> reloc, cm |-> cm, opt |-> opt]
        tm == IF nat.tmNull THEN NULL ELSE fresh
    IN contextlib_closing(
         IF ~nat.found
         THEN Raise("LLVMException", <<error>>, <<c1>>)
         ELSE IF ~nat.hasTM
         THEN Raise("LLVMException",
                    <<Target(triple1), Str("No target machine.")>>, <<c1, c2>>)
         ELSE IF tm = NULL
         THEN Raise("LLVMException", <<Str("Cannot create target machine")>>,
                    <<c1, c2, c3>>)
         ELSE Wrapper("TargetMachine", tm, <<c1, c2, c3>>))

\* TargetMachine.lookup with the hasTargetMachine check lost.
Mut_TargetMachine_lookup(arch, cpu, features, opt, cm, reloc, nat, fresh) ==
    LET triple == IF nat.found THEN nat.filled ELSE ""
        error  == IF nat.found THEN BytesIO ELSE BufWrite(BytesIO, nat.msg)
        c1 == [fn |-> "lookupTarget", arch |-> arch, triple |-> ""]
        c3 == [fn |-> "createTargetMachine", triple |-> triple, cpu |-> cpu,
               features |-> features, reloc |-> reloc, cm |-> cm, opt |-> opt]
        tm == IF nat.tmNull THEN NULL ELSE fresh
    IN contextlib_closing(
         IF ~nat.found
         THEN Raise("LLVMException", <<getvalue(error)>>, <<c1>>)
         ELSE IF tm = NULL
         THEN Raise("LLVMException", <<Str("Cannot create target machine")>>,
                    <<c1, c3>>)
         ELSE Wrapper("TargetMachine", tm, <<c1, c3>>))

TargetMachine_lookup(arch, cpu, features, opt, cm, reloc, nat, fresh) ==
    LET triple == IF nat.found THEN nat.filled ELSE ""
        error  == IF nat.found THEN BytesIO ELSE BufWrite(BytesIO, nat.msg)
        c1 == [fn |-> "lookupTarget", arch |-> arch, triple |-> ""]
        c2 == [fn |-> "hasTargetMachine"]
        c3 == [fn |-> "createTargetMachine", triple |-> triple, cpu |-> cpu,
               features |-> features, reloc |-> reloc, cm |-> cm, opt |-> opt]
        tm == IF nat.tmNull THEN NULL ELSE fresh
    IN contextlib_closing(
         IF ~nat.found
         THEN Raise("LLVMException", <<getvalue(error)>>, <<c1>>)
         ELSE IF ~nat.hasTM
         THEN Raise("LLVMException",
                    <<Target(arch), Str("No target machine.")>>, <<c1, c2>>)
         ELSE IF tm = NULL
         THEN Raise("LLVMException", <<Str("Cannot create target machine")>>,
                    <<c1, c2, c3>>)
         ELSE Wrapper("TargetMachine", tm, <<c1, c2, c3>>))

---------------------------------------------------------------------------
(* Strings that the code takes apart are sequences of characters. *)

RECURSIVE SplitFrom(_, _, _)
\* str.split(sep) continued: cur is the piece being read, s what is left.
SplitFrom(s, sep, cur) ==
    IF s = <<>> THEN <<cur>>
    ELSE IF Head(s) = sep THEN <<cur>> \o SplitFrom(Tail(s), sep, <<>>)
    ELSE SplitFrom(Tail(s), sep, Append(cur, Head(s)))

\* string.split(','): the pieces between the commas, empty pieces kept.
split(s, sep) == SplitFrom(s, sep, <<>>)

\* Machine-attribute strings a caller may pass.
MAttrStrings == {<<>>, <<"a", ",", "b">>, <<"a", " ", "b">>}

---------------------------------------------------------------------------
(* GenericValue. *)

\* str(ty) of the types a caller may pass to GenericValue.real.
RealTypes == {"float", "double", "i32"}

GenericValue_int(ty, intval, ptr) ==
    Wrapper("GenericValue", ptr,
            <<[fn |-> "CreateInt", ty |-> ty, val |-> intval, signed |-> FALSE]>>)

GenericValue_int_signed(ty, intval, ptr) ==
    Wrapper("GenericValue", ptr,
            <<[fn |-> "CreateInt", ty |-> ty, val |-> intval, signed |-> TRUE]>>)

GenericValue_real(ty, floatval, ptr) ==
    IF ty = "float"
    THEN Wrapper("GenericValue", ptr, <<[fn |-> "CreateFloat", val |-> floatval]>>)
    ELSE IF ty = "double"
    THEN Wrapper("GenericValue", ptr, <<[fn |-> "CreateDouble", val |-> floatval]>>)
    ELSE Raise("Exception", <<Str("Unreachable")>>, <<>>)

GenericValue_pointer(addr, ptr) ==
    Wrapper("GenericValue", ptr, <<[fn |-> "CreatePointer", addr |-> addr]>>)

---------------------------------------------------------------------------
(* EngineBuilder.  A method of a builder answers with its outcome and the  *)
(* native builder's settings after it.                                     *)

KIND_JIT == "EngineKind.JIT"

KIND_INTERPRETER == "EngineKind.Interpreter"

\* The native builder's engine kind until setEngineKind is called.
KIND_DEFAULT == "EngineKind.Either"

\* api.llvm.EngineBuilder.new(module): the settings of a fresh native builder.
NativeBuilder(module) ==
    [module |-> module, kind |-> KIND_DEFAULT, optLevel |-> 2, mattrs |-> <<>>]

EngineBuilder_new(module, ptr) ==
    Wrapper("EngineBuilder", ptr, <<[fn |-> "EngineBuilder.new", module |-> module]>>)

EngineBuilder_force_jit(self, b) ==
    [out |-> Return(self, <<[fn |-> "setEngineKind", kind |-> KIND_JIT]>>),
     b   |-> [b EXCEPT !.kind = KIND_JIT]]

EngineBuilder_force_interpreter(self, b) ==
    [out |-> Return(self, <<[fn |-> "setEngineKind", kind |-> KIND_INTERPRETER]>>),
     b   |-> [b EXCEPT !.kind = KIND_INTERPRETER]]

\* EngineBuilder.opt with the lower end of the range off by one.
Mut_EngineBuilder_opt(self, b, level) ==
    IF ~(0 < level /\ level <= 3)
    THEN [out |-> Raise("AssertionError", <<>>, <<>>), b |-> b]
    ELSE [out |-> Return(self, <<[fn |-> "setOptLevel", level |-> level]>>),
          b   |-> [b EXCEPT !.optLevel = level]]

EngineBuilder_opt(self, b, level) ==
    IF ~(0 <= level /\ level <= 3)
    THEN [out |-> Raise("AssertionError", <<>>, <<>>), b |-> b]
    ELSE [out |-> Return(self, <<[fn |-> "setOptLevel", level |-> level]>>),
          b   |-> [b EXCEPT !.optLevel = level]]

\* EngineBuilder.mattrs building its answer from a fresh builder's settings.
Mut_EngineBuilder_mattrs(self, b, string) ==
    [out |-> Return(self, <<[fn |-> "setMAttrs", mattrs |-> split(string, ",")]>>),
     b   |-> [NativeBuilder(b.module) EXCEPT !.mattrs = split(string, ",")]]

EngineBuilder_mattrs(self, b, string) ==
    [out |-> Return(self, <<[fn |-> "setMAttrs", mattrs |-> split(string, ",")]>>),
     b   |-> [b EXCEPT !.mattrs = split(string, ",")]]

\* create(tm=None): tm is None or a TargetMachine wrapper; engine is what the
\* native create answered.
EngineBuilder_create(self, tm, engine) ==
    IF tm.cls # "None"
    THEN Wrapper("ExecutionEngine", engine,
                 <<[fn |-> "create", builder |-> self.ptr, tm |-> tm.ptr]>>)
    ELSE Wrapper("ExecutionEngine", engine,
                 <<[fn |-> "create", builder |-> self.ptr, tm |-> NULL]>>)

\* select_target(*args): args is the tuple of positional arguments.
EngineBuilder_select_target(self, args, ptr) ==
    IF args # <<>>
    THEN IF Len(args) # 4
         THEN Raise("ValueError", <<>>, <<>>)
         ELSE Wrapper("TargetMachine", ptr,
                      <<[fn |-> "selectTarget", n |-> 4, triple |-> args[1],
                         march |-> args[2], mcpu |-> args[3],
                         mattrs |-> split(args[4], ",")]>>)
    ELSE Wrapper("TargetMachine", ptr, <<[fn |-> "selectTarget", n |-> 0]>>)

\* Argument tuples a caller may pass to select_target.
SelectArgs == {<<>>, <<"arm-none-eabi", "arm">>,
               <<"arm-none-eabi", "arm", "cortex-a8", <<"a", ",", "b">>>>}

---------------------------------------------------------------------------
(* ExecutionEngine. *)

\* ExecutionEngine.new(module, force_interpreter): bptr and eptr are what the
\* native EngineBuilder.new and create answered.
ExecutionEngine_new(module, force_interpreter, bptr, eptr) ==
    LET eb == EngineBuilder_new(module, bptr)
    IN IF eb.status = "raised" THEN [out |-> eb, b |-> NativeBuilder(module)]
       ELSE LET b0 == NativeBuilder(module)
                fi == IF force_interpreter
                      THEN EngineBuilder_force_interpreter(eb.ret, b0)
                      ELSE [out |-> Return(None, <<>>), b |-> b0]
                cr == EngineBuilder_create(eb.ret, None, eptr)
            IN [out |-> [cr EXCEPT !.calls = eb.calls \o fi.out.calls \o cr.calls],
                b   |-> fi.b]

ExecutionEngine_run_function(self, fn, args, ptr) ==
    Wrapper("GenericValue", ptr,
            <<[fn |-> "runFunction", engine |-> self.ptr, f |-> fn, args |-> args]>>)

\* add_global_mapping(gvar, addr): the outcome and the engine's mappings after it.
ExecutionEngine_add_global_mapping(self, e, gvar, addr) ==
    IF ~(addr >= 0)
    THEN [out |-> Raise("AssertionError",
                        <<Str("Address cannot not be negative")>>, <<>>),
          e   |-> e]
    ELSE [out |-> Return(None, <<[fn |-> "addGlobalMapping", engine |-> self.ptr,
                                  gvar |-> gvar, addr |-> addr]>>),
          e   |-> [e EXCEPT !.mappings = @ \cup {<<gvar, addr>>}]]

\* Addresses a caller may pass.
Addrs == {-1, 0, 8}

---------------------------------------------------------------------------
(* initialize_target. *)

prefix == "LLVMInitialize"

postfixes == <<"Target", "TargetInfo", "TargetMC", "AsmPrinter">>

\* Target names a caller may pass.
Targets == {"X86", "PTX"}

RECURSIVE Mut_InitLoop(_, _, _, _)
\* The loop skipping an initializer the api module lacks instead of stopping.
Mut_InitLoop(attrs, target, i, calls) ==
    IF i > Len(postfixes) THEN [raised |-> FALSE, calls |-> calls]
    ELSE IF <<target, postfixes[i]>> \notin attrs
    THEN [raised |-> TRUE,
          calls |-> Mut_InitLoop(attrs, target, i + 1, calls).calls]
    ELSE Mut_InitLoop(attrs, target, i + 1,
                      Append(calls, [fn |-> prefix, target |-> target,
                                     postfix |-> postfixes[i]]))

RECURSIVE InitLoop(_, _, _, _)
\* The for loop from postfixes[i] on: getattr(api, name) raises
\* AttributeError at the first initializer the api module lacks; `calls`
\* are the initializers invoked so far.
InitLoop(attrs, target, i, calls) ==
    IF i > Len(postfixes) THEN [raised |-> FALSE, calls |-> calls]
    ELSE IF <<target, postfixes[i]>> \notin attrs
    THEN [raised |-> TRUE, calls |-> calls]
    ELSE InitLoop(attrs, target, i + 1,
                  Append(calls, [fn |-> prefix, target |-> target,
                                 postfix |-> postfixes[i]]))

\* initialize_target(target, noraise) with the api module's attributes attrs.
initialize_target(attrs, target, noraise) ==
    LET r == InitLoop(attrs, target, 1, <<>>)
    IN IF r.raised
       THEN IF noraise THEN Return(Bool(FALSE), r.calls)
            ELSE Raise("AttributeError", <<>>, r.calls)
       ELSE Return(Bool(TRUE), r.calls)

\* The components the initializers invoked in `calls` initialize.
Invoked(calls) == {<<calls[i].target, calls[i].postfix>> : i \in DOMAIN calls}

---------------------------------------------------------------------------
(* TargetMachine._emit_file, emit_assembly, emit_object. *)

CGFT_AssemblyFile == "CGFT_AssemblyFile"

CGFT_ObjectFile == "CGFT_ObjectFile"

Modules == {"m1"}

\* What the stream holds after pm.run(module): nothing when no emission
\* pass was added.
Emitted(module, cgft, failed) == IF failed THEN "" ELSE "code"

\* _emit_file(module, cgft): failed is what addPassesToEmitFile answered.
TargetMachine_emit_file(self, module, cgft, failed) ==
    LET calls == << [fn |-> "PassManager.new"],
                    [fn |-> "make_raw_ostream_for_printing"],
                    [fn |-> "getDataLayout", tm |-> self.ptr],
                    [fn |-> "DataLayout.new"],
                    [fn |-> "pm.add"],
                    [fn |-> "addPassesToEmitFile", tm |-> self.ptr,
                     cgft |-> cgft, failed |-> failed],
                    [fn |-> "pm.run", module |-> module] >>
    IN IF cgft = CGFT_ObjectFile
       THEN Return([cls |-> "bytes", value |-> Emitted(module, cgft, failed)],
                   Append(calls, [fn |-> "os.bytes"]))
       ELSE Return([cls |-> "str", value |-> Emitted(module, cgft, failed)],
                   Append(calls, [fn |-> "os.str"]))

TargetMachine_emit_assembly(self, module, failed) ==
    TargetMachine_emit_file(self, module, CGFT_AssemblyFile, failed)

TargetMachine_emit_object(self, module, failed) ==
    TargetMachine_emit_file(self, module, CGFT_ObjectFile, failed)

---------------------------------------------------------------------------
(* The state machine.  ee.py keeps no state of its own beyond the handles  *)
(* it wraps: the settings of a native builder and the mappings of a native *)
(* engine live in the native library, so an operation on one meets it in   *)
(* any of the states the library can have brought it to.                   *)

\* Settings a native builder made for `module` can have: those it starts
\* with, and those after force_jit() or force_interpreter(), opt(3) and
\* mattrs("a,b").
BuilderStates(module) ==
    {NativeBuilder(module)}
    \cup [module : {module}, kind : {KIND_JIT, KIND_INTERPRETER},
          optLevel : {3}, mattrs : {split(<<"a", ",", "b">>, ",")}]

\* The state a native engine can have.
EngineStates == {[mappings |-> {}], [mappings |-> {<<"g", 8>>}]}

Of(cls) == {w \in wrappers : w.cls = cls}

Op(name, self, args, out, after) ==
    [op |-> name, self |-> self, args |-> args, out |-> out, after |-> after]

EmptyMap == [h \in {} |-> None]

\* The initializers of a build that has the X86 backend whole and the PTX
\* backend without its MC layer.
HostApi ==
    {<<"X86", postfixes[i]>> : i \in DOMAIN postfixes}
    \cup {<<"PTX", "Target">>, <<"PTX", "TargetInfo">>, <<"PTX", "AsmPrinter">>}

\* Every set of initializers an api module can have.
ApiModules == SUBSET (Targets \X {postfixes[i] : i \in DOMAIN postfixes})

\* The state after `import llvm.ee` over the api module `api`.
InitWith(api) ==
    /\ apiAttrs = api
    /\ initialized = {}
    /\ firstInit = [t \in Targets |-> "none"]
    /\ builders = EmptyMap
    /\ engines = EmptyMap
    /\ wrappers = {}
    /\ nextHandle = 1
    /\ last = Op("start", None, None, Return(None, <<>>), None)

Init == InitWith(HostApi)

InitAnyApi == \E api \in ApiModules : InitWith(api)

\* A static method or a method that changes nothing this layer tracks.
Stateless(name, self, args, out, after) ==
    /\ last' = Op(name, self, args, out, after)
    /\ UNCHANGED <<apiAttrs, initialized, firstInit, builders, engines,
                   wrappers, nextHandle>>

\* A constructor-like operation: a wrapper it returns is handed to the
\* caller, and its handle is used up.
HandOut(out) ==
    IF out.status = "ok"
    THEN /\ wrappers' = wrappers \cup {out.ret}
         /\ nextHandle' = nextHandle + 1
    ELSE UNCHANGED <<wrappers, nextHandle>>

Call_initialize_target ==
    \E target \in Targets, noraise \in BOOLEAN :
        LET out == initialize_target(apiAttrs, target, noraise)
        IN /\ last' = Op("initialize_target", None,
                         [target |-> target, noraise |-> noraise,
                          repeat |-> firstInit[target] # "none"], out, None)
           /\ initialized' = initialized \cup Invoked(out.calls)
           /\ firstInit' =
                IF firstInit[target] # "none" THEN firstInit
                ELSE [firstInit EXCEPT ![target] =
                        IF Len(out.calls) = Len(postfixes)
                        THEN "complete" ELSE "missing"]
           /\ UNCHANGED <<apiAttrs, builders, engines, wrappers, nextHandle>>

Call_TargetMachine_new ==
    /\ nextHandle <= MaxHandles
    /\ \E triple \in Triples, cpu \in Cpus, features \in Features,
          opt \in MachineOptLevels, nat \in TargetAnswers({""}) :
        LET out == TargetMachine_new(triple, cpu, features, opt, CM_DEFAULT,
                                     RELOC_DEFAULT, nat, nextHandle)
        IN /\ last' = Op("TargetMachine.new", None,
                         [triple |-> triple, cpu |-> cpu, features |-> features,
                          opt |-> opt, nat |-> nat], out, None)
           /\ HandOut(out)
           /\ UNCHANGED <<apiAttrs, initialized, firstInit, builders, engines>>

Call_TargetMachine_lookup ==
    /\ nextHandle <= MaxHandles
    /\ \E arch \in Archs, cpu \in Cpus, features \in Features,
          opt \in MachineOptLevels, nat \in TargetAnswers(NativeTriples) :
        LET out == TargetMachine_lookup(arch, cpu, features, opt, CM_SMALL,
                                        RELOC_PIC, nat, nextHandle)
        IN /\ last' = Op("TargetMachine.lookup", None,
                         [arch |-> arch, cpu |-> cpu, features |-> features,
                          opt |-> opt, nat |-> nat], out, None)
           /\ HandOut(out)
           /\ UNCHANGED <<apiAttrs, initialized, firstInit, builders, engines>>

Call_TargetMachine_emit_assembly ==
    \E self \in Of("TargetMachine"), module \in Modules, failed \in BOOLEAN :
        Stateless("TargetMachine.emit_assembly", self,
                  [module |-> module, failed |-> failed],
                  TargetMachine_emit_assembly(self, module, failed), None)

Call_TargetMachine_emit_object ==
    \E self \in Of("TargetMachine"), module \in Modules, failed \in BOOLEAN :
        Stateless("TargetMachine.emit_object", self,
                  [module |-> module, failed |-> failed],
                  TargetMachine_emit_object(self, module, failed), None)

\* What a native constructor can answer: null, or a fresh handle.
Answers == {NULL, nextHandle}

Call_GenericValue_int ==
    \E intval \in {7}, ptr \in Answers :
        Stateless("GenericValue.int", None,
                  [ty |-> "i32", intval |-> intval, ptr |-> ptr],
                  GenericValue_int("i32", intval, ptr), None)

Call_GenericValue_int_signed ==
    \E intval \in {-7}, ptr \in Answers :
        Stateless("GenericValue.int_signed", None,
                  [ty |-> "i32", intval |-> intval, ptr |-> ptr],
                  GenericValue_int_signed("i32", intval, ptr), None)

Call_GenericValue_real ==
    \E ty \in RealTypes, ptr \in Answers :
        Stateless("GenericValue.real", None,
                  [ty |-> ty, floatval |-> 1, ptr |-> ptr],
                  GenericValue_real(ty, 1, ptr), None)

Call_GenericValue_pointer ==
    \E addr \in {8}, ptr \in Answers :
        Stateless("GenericValue.pointer", None,
                  [addr |-> addr, ptr |-> ptr],
                  GenericValue_pointer(addr, ptr), None)

Call_EngineBuilder_new ==
    /\ nextHandle <= MaxHandles
    /\ \E module \in Modules, ptr \in Answers :
        LET out == EngineBuilder_new(module, ptr)
        IN /\ last' = Op("EngineBuilder.new", None,
                         [module |-> module, ptr |-> ptr], out,
                         NativeBuilder(module))
           /\ HandOut(out)
           /\ builders' = IF out.status = "ok"
                          THEN builders @@ (ptr :> module) ELSE builders
           /\ UNCHANGED <<apiAttrs, initialized, firstInit, engines>>

Call_EngineBuilder_force_jit ==
    \E self \in Of("EngineBuilder") :
      \E b \in BuilderStates(builders[self.ptr]) :
        LET r == EngineBuilder_force_jit(self, b)
        IN Stateless("EngineBuilder.force_jit", self, [b |-> b], r.out, r.b)

Call_EngineBuilder_force_interpreter ==
    \E self \in Of("EngineBuilder") :
      \E b \in BuilderStates(builders[self.ptr]) :
        LET r == EngineBuilder_force_interpreter(self, b)
        IN Stateless("EngineBuilder.force_interpreter", self, [b |-> b],
                     r.out, r.b)

Call_EngineBuilder_opt ==
    \E self \in Of("EngineBuilder"), level \in OptLevels :
      \E b \in BuilderStates(builders[self.ptr]) :
        LET r == EngineBuilder_opt(self, b, level)
        IN Stateless("EngineBuilder.opt", self, [b |-> b, level |-> level],
                     r.out, r.b)

Call_EngineBuilder_mattrs ==
    \E self \in Of("EngineBuilder"), string \in MAttrStrings :
      \E b \in BuilderStates(builders[self.ptr]) :
        LET r == EngineBuilder_mattrs(self, b, string)
        IN Stateless("EngineBuilder.mattrs", self, [b |-> b, string |-> string],
                     r.out, r.b)

Call_EngineBuilder_create ==
    /\ nextHandle <= MaxHandles
    /\ \E self \in Of("EngineBuilder"), tm \in {None} \cup Of("TargetMachine"),
          engine \in Answers :
        LET out == EngineBuilder_create(self, tm, engine)
        IN /\ last' = Op("EngineBuilder.create", self,
                         [tm |-> tm, ptr |-> engine], out, None)
           /\ HandOut(out)
           /\ engines' =
                IF out.status = "ok"
                THEN engines @@ (engine :>
                        [builder |-> self.ptr, module |-> builders[self.ptr],
                         tm |-> IF tm.cls = "None" THEN NULL ELSE tm.ptr])
                ELSE engines
           /\ UNCHANGED <<apiAttrs, initialized, firstInit, builders>>

Call_EngineBuilder_select_target ==
    /\ nextHandle <= MaxHandles
    /\ \E self \in Of("EngineBuilder"), args \in SelectArgs, ptr \in Answers :
        LET out == EngineBuilder_select_target(self, args, ptr)
        IN /\ last' = Op("EngineBuilder.select_target", self,
                         [args |-> args, ptr |-> ptr], out, None)
           /\ HandOut(out)
           /\ UNCHANGED <<apiAttrs, initialized, firstInit, builders, engines>>

Call_ExecutionEngine_new ==
    /\ nextHandle + 1 <= MaxHandles
    /\ \E module \in Modules, force_interpreter \in BOOLEAN,
          bnull \in BOOLEAN, enull \in BOOLEAN :
        LET bptr == IF bnull THEN NULL ELSE nextHandle
            eptr == IF enull THEN NULL ELSE nextHandle + 1
            r    == ExecutionEngine_new(module, force_interpreter, bptr, eptr)
        IN /\ last' = Op("ExecutionEngine.new", None,
                         [module |-> module,
                          force_interpreter |-> force_interpreter,
                          bptr |-> bptr, ptr |-> eptr],
                         r.out, r.b)
           /\ builders' = IF bptr # NULL
                          THEN builders @@ (bptr :> module) ELSE builders
           /\ IF r.out.status = "ok"
              THEN /\ wrappers' = wrappers \cup {r.out.ret}
                   /\ engines' = engines @@ (eptr :>
                        [builder |-> bptr, module |-> module, tm |-> NULL])
              ELSE UNCHANGED <<wrappers, engines>>
           /\ nextHandle' = IF bptr = NULL THEN nextHandle
                            ELSE IF eptr = NULL THEN nextHandle + 1
                            ELSE nextHandle + 2
           /\ UNCHANGED <<apiAttrs, initialized, firstInit>>

\* Argument lists for run_function: none, or the GenericValue that the last
\* operation returned.
RunArgs ==
    {<<>>} \cup (IF last.out.ret.cls = "GenericValue"
                 THEN {<<last.out.ret>>} ELSE {})

Call_ExecutionEngine_run_function ==
    \E self \in Of("ExecutionEngine"), args \in RunArgs, ptr \in Answers :
        Stateless("ExecutionEngine.run_function", self,
                  [fn |-> "f", args |-> args, ptr |-> ptr],
                  ExecutionEngine_run_function(
                      self, "f", [i \in DOMAIN args |-> args[i].ptr], ptr),
                  None)

Call_ExecutionEngine_add_global_mapping ==
    \E self \in Of("ExecutionEngine"), addr \in Addrs, e \in EngineStates :
        LET r == ExecutionEngine_add_global_mapping(self, e, "g", addr)
        IN Stateless("ExecutionEngine.add_global_mapping", self,
                     [e |-> e, gvar |-> "g", addr |-> addr], r.out, r.e)

NextInit == Call_initialize_target

NextTarget ==
    \/ Call_TargetMachine_new
    \/ Call_TargetMachine_lookup
    \/ Call_TargetMachine_emit_assembly
    \/ Call_TargetMachine_emit_object

NextEngine ==
    \/ Call_GenericValue_int
    \/ Call_GenericValue_int_signed
    \/ Call_GenericValue_real
    \/ Call_GenericValue_pointer
    \/ Call_EngineBuilder_new
    \/ Call_EngineBuilder_force_jit
    \/ Call_EngineBuilder_force_interpreter
    \/ Call_EngineBuilder_opt
    \/ Call_EngineBuilder_mattrs
    \/ Call_EngineBuilder_create
    \/ Call_EngineBuilder_select_target
    \/ Call_ExecutionEngine_new
    \/ Call_ExecutionEngine_run_function
    \/ Call_ExecutionEngine_add_global_mapping

Next == NextInit \/ NextTarget \/ NextEngine

Spec == Init /\ [][Next]_vars

\* initialize_target alone, over every api module.
SpecInit == InitAnyApi /\ [][NextInit]_vars

---------------------------------------------------------------------------
(* Properties. *)

Fns(calls) == [i \in DOMAIN calls |-> calls[i].fn]

Raised == last.out.status = "raised"

Ok == last.out.status = "ok"

\* The exception holds msg as text a handler can read.
Carries(exc, msg) ==
    \E i \in DOMAIN exc.args :
        \/ exc.args[i].cls = "str" /\ exc.args[i].value = msg
        \/ /\ exc.args[i].cls = "BytesIO"
           /\ ~exc.args[i].closed
           /\ exc.args[i].value = msg

IsTargetOp == last.op \in {"TargetMachine.new", "TargetMachine.lookup"}

IsEmitOp ==
    last.op \in {"TargetMachine.emit_assembly", "TargetMachine.emit_object"}

ValidLevel(l) == 0 <= l /\ l <= 3

\* C1: in TargetMachine.new and TargetMachine.lookup, when the native
\* lookupTarget finds no target, the operation raises an exception that
\* carries the message the native lookup wrote into the error buffer, and
\* returns no TargetMachine.
C1_NotFoundCarriesNativeMessage ==
    (IsTargetOp /\ ~last.args.nat.found) =>
        /\ Raised
        /\ last.out.ret.cls = "None"
        /\ Carries(last.out.exc, last.args.nat.msg)

\* The three error kinds of the target lookups.
TargetNotFound ==
    /\ IsTargetOp
    /\ last.out.exc.type = "LLVMException"
    /\ Fns(last.out.calls) = <<"lookupTarget">>

NoTargetMachine ==
    /\ IsTargetOp
    /\ last.out.exc.type = "LLVMException"
    /\ Carries(last.out.exc, "No target machine.")

CreationFailed ==
    /\ IsTargetOp
    /\ last.out.exc.type = "LLVMException"
    /\ Carries(last.out.exc, "Cannot create target machine")

\* Operations that wrap the handle a native constructor answered.
WrappingOps ==
    {"GenericValue.int", "GenericValue.int_signed", "GenericValue.real",
     "GenericValue.pointer", "EngineBuilder.new", "EngineBuilder.create",
     "EngineBuilder.select_target", "ExecutionEngine.new",
     "ExecutionEngine.run_function"}

\* The native constructor the operation reached answered null.
NativeNull ==
    /\ last.op \in WrappingOps
    /\ last.out.calls # <<>>
    /\ \/ last.args.ptr = NULL
       \/ last.op = "ExecutionEngine.new" /\ last.args.bptr = NULL

\* An error the native side produced: a null handle, refused by the wrapper.
NullHandleError == NativeNull /\ last.out.exc.type = "AssertionError"

Unreachable ==
    /\ last.op = "GenericValue.real"
    /\ last.args.ty \notin {"float", "double"}
    /\ last.out.exc.type = "Exception"
    /\ Carries(last.out.exc, "Unreachable")
    /\ last.out.calls = <<>>

LevelRefused ==
    /\ last.op = "EngineBuilder.opt"
    /\ ~ValidLevel(last.args.level)
    /\ last.out.exc.type = "AssertionError"
    /\ last.out.calls = <<>>

AddressRefused ==
    /\ last.op = "ExecutionEngine.add_global_mapping"
    /\ last.args.addr < 0
    /\ last.out.exc.type = "AssertionError"
    /\ last.out.calls = <<>>

InitializerMissing ==
    /\ last.op = "initialize_target"
    /\ ~last.args.noraise
    /\ last.out.exc.type = "AttributeError"
    /\ \E i \in DOMAIN postfixes :
          <<last.args.target, postfixes[i]>> \notin apiAttrs

ArgumentCount ==
    /\ last.op = "EngineBuilder.select_target"
    /\ Len(last.args.args) \notin {0, 4}
    /\ last.out.exc.type = "ValueError"
    /\ last.out.calls = <<>>

C3_EmitFailureIsFatal ==
    (IsEmitOp /\ last.args.failed) =>
        /\ Raised
        /\ \A i \in DOMAIN last.out.calls : last.out.calls[i].fn # "pm.run"

\* C4: every wrapper handed back holds a non-null handle that a native
\* call produced, and an operation whose native constructor answers null
\* fails and returns nothing.
C4_WrappersHoldHandles ==
    /\ \A w \in wrappers : w.ptr # NULL /\ w.ptr \in 1..(nextHandle - 1)
    /\ last.out.ret.cls \in {"GenericValue", "EngineBuilder",
                             "ExecutionEngine", "TargetMachine"}
          => last.out.ret.ptr # NULL
    /\ NativeNull => Raised /\ last.out.ret.cls = "None"
    /\ (IsTargetOp /\ last.args.nat.found /\ last.args.nat.hasTM
            /\ last.args.nat.tmNull)
          => Raised /\ last.out.ret.cls = "None"

\* The native create answered null and EngineBuilder.create raised.
C4_Witness ==
    /\ last.op = "EngineBuilder.create"
    /\ last.args.ptr = NULL
    /\ Raised

\* C5: a native call is reached with an optimization level only in [0,3]
\* and addGlobalMapping only with a non-negative address; an operation
\* given a value outside makes no native call and leaves the object as it
\* was.
C5_PreconditionsValidated ==
    /\ \A i \in DOMAIN last.out.calls :
         LET c == last.out.calls[i]
         IN /\ c.fn = "setOptLevel" => ValidLevel(c.level)
            /\ c.fn = "createTargetMachine" => ValidLevel(c.opt)
            /\ c.fn = "addGlobalMapping" => c.addr >= 0
    /\ (last.op = "EngineBuilder.opt" /\ ~ValidLevel(last.args.level))
          => Raised /\ last.out.calls = <<>> /\ last.after = last.args.b
    /\ (IsTargetOp /\ ~ValidLevel(last.args.opt))
          => Raised /\ last.out.calls = <<>>
    /\ (last.op = "ExecutionEngine.add_global_mapping" /\ last.args.addr < 0)
          => Raised /\ last.out.calls = <<>> /\ last.after = last.args.e

\* The outcome of one initialize_target call: the initializers are invoked
\* in the order Target, TargetInfo, TargetMC, AsmPrinter, none after a
\* missing one; True is returned exactly when all four were invoked; when
\* one is missing, noraise=True returns False and noraise=False raises; the
\* call ends as the first call for the target did.
C6_Outcome ==
    last.op = "initialize_target" =>
        LET calls    == last.out.calls
            target   == last.args.target
            complete == \A i \in DOMAIN postfixes :
                            <<target, postfixes[i]>> \in apiAttrs
        IN /\ Len(calls) <= Len(postfixes)
           /\ \A i \in DOMAIN calls :
                 /\ calls[i].fn = "LLVMInitialize"
                 /\ calls[i].target = target
                 /\ calls[i].postfix = postfixes[i]
           /\ (Ok /\ last.out.ret = Bool(TRUE)) <=> Len(calls) = Len(postfixes)
           /\ complete => Ok /\ last.out.ret = Bool(TRUE)
           /\ (~complete /\ last.args.noraise)
                 => Ok /\ last.out.ret = Bool(FALSE)
           /\ (~complete /\ ~last.args.noraise)
                 => Raised /\ last.out.exc.type = "AttributeError"
           /\ (firstInit[target] = "complete")
                 <=> (Ok /\ last.out.ret = Bool(TRUE))

\* A call for a target that was initialized before leaves the set of
\* initialized components as it was.
C6_Repeat ==
    (last'.op = "initialize_target" /\ last'.args.repeat)
        => initialized' = initialized

\* C6: initialize_target invokes the four initializers in order, returns
\* True exactly when all four were invoked, returns False or raises when
\* one is missing, and a repeated call for a target gives the first call's
\* result and leaves the initialized components unchanged.
C6_InitializeTarget == []C6_Outcome /\ [][C6_Repeat]_vars

\* A repeated call with noraise=True has returned False after initializing
\* the components before the missing one.
C6_Witness ==
    /\ last.op = "initialize_target"
    /\ last.args.repeat
    /\ last.args.noraise
    /\ last.out.ret = Bool(FALSE)
    /\ <<last.args.target, "Target">> \in initialized
    /\ <<last.args.target, "AsmPrinter">> \in apiAttrs \ initialized

\* C7: a builder is consumed by create(): no builder yields two engines,
\* and a target machine passed to create() is owned by that one engine,
\* never by two.
C7_BuilderConsumed ==
    \A e \in DOMAIN engines :
        \A f \in DOMAIN engines \ {e} :
            /\ engines[f].builder # engines[e].builder
            /\ engines[e].tm # NULL => engines[f].tm # engines[e].tm

\* C8: TargetMachine.new and lookup call lookupTarget, hasTargetMachine and
\* createTargetMachine in that order and stop at the first that fails;
\* createTargetMachine is not called for a target not found or without a
\* machine; a target without a machine raises 'No target machine.', a null
\* machine raises 'Cannot create target machine'; a TargetMachine is
\* returned only when all three succeed.
C8_CheckOrder ==
    IsTargetOp =>
        LET nat == last.args.nat
            fns == Fns(last.out.calls)
        IN /\ ~nat.found => Raised /\ fns = <<"lookupTarget">>
           /\ (nat.found /\ ~nat.hasTM)
                 => /\ Raised
                    /\ fns = <<"lookupTarget", "hasTargetMachine">>
                    /\ NoTargetMachine
           /\ (nat.found /\ nat.hasTM /\ nat.tmNull)
                 => /\ Raised
                    /\ fns = <<"lookupTarget", "hasTargetMachine",
                               "createTargetMachine">>
                    /\ CreationFailed
           /\ Ok <=> (nat.found /\ nat.hasTM /\ ~nat.tmNull)
           /\ Ok => /\ fns = <<"lookupTarget", "hasTargetMachine",
                               "createTargetMachine">>
                    /\ last.out.ret = [cls |-> "TargetMachine",
                                       ptr |-> nextHandle - 1]

\* TargetMachine.lookup has found a target that has no target machine.
C8_Witness ==
    /\ last.op = "TargetMachine.lookup"
    /\ last.args.nat.found
    /\ ~last.args.nat.hasTM
    /\ Raised

ConfigOps ==
    {"EngineBuilder.force_jit", "EngineBuilder.force_interpreter",
     "EngineBuilder.opt", "EngineBuilder.mattrs"}

\* The native settings after the operation are those before it, but for
\* the one named.
OnlyChanged(field) ==
    \A f \in DOMAIN last.after :
        f # field => last.after[f] = last.args.b[f]

\* C9: force_jit, force_interpreter, opt and mattrs return the builder they
\* were called on and change only the setting they name; and
\* ExecutionEngine.new(module, force_interpreter) is EngineBuilder.new(module),
\* then force_interpreter() exactly when the flag is true, then create()
\* without a target machine.
C9_BuilderSettings ==
    /\ (last.op \in ConfigOps /\ Ok)
          => last.out.ret = last.self /\ Len(last.out.calls) = 1
    /\ last.op = "EngineBuilder.force_jit"
          => Ok /\ last.after.kind = KIND_JIT /\ OnlyChanged("kind")
    /\ last.op = "EngineBuilder.force_interpreter"
          => Ok /\ last.after.kind = KIND_INTERPRETER /\ OnlyChanged("kind")
    /\ (last.op = "EngineBuilder.opt" /\ Ok)
          => last.after.optLevel = last.args.level /\ OnlyChanged("optLevel")
    /\ (last.op = "EngineBuilder.opt" /\ Raised) => last.after = last.args.b
    /\ last.op = "EngineBuilder.mattrs" => Ok /\ OnlyChanged("mattrs")
    /\ (last.op = "ExecutionEngine.new" /\ last.args.bptr # NULL
            /\ last.args.ptr # NULL)
          => /\ Ok
             /\ last.out.ret = [cls |-> "ExecutionEngine", ptr |-> last.args.ptr]
             /\ Fns(last.out.calls) =
                   IF last.args.force_interpreter
                   THEN <<"EngineBuilder.new", "setEngineKind", "create">>
                   ELSE <<"EngineBuilder.new", "create">>
             /\ last.out.calls[Len(last.out.calls)].tm = NULL
             /\ last.after =
                   [NativeBuilder(last.args.module) EXCEPT !.kind =
                       IF last.args.force_interpreter
                       THEN KIND_INTERPRETER ELSE KIND_DEFAULT]
             /\ engines[last.args.ptr] =
                   [builder |-> last.args.bptr, module |-> last.args.module,
                    tm |-> NULL]

\* opt(3) has returned its builder, whose kind had been set to JIT before.
C9_Witness ==
    /\ last.op = "EngineBuilder.opt"
    /\ Ok
    /\ last.args.b.kind = KIND_JIT
    /\ last.args.b.mattrs # <<>>
    /\ last.args.level = 0

\* C10: TargetMachine.new passes the host default triple for an empty
\* triple and the host CPU name for an empty cpu to lookupTarget and
\* createTargetMachine, and a non-empty triple or cpu unchanged;
\* TargetMachine.lookup passes cpu as given, empty or not, and the triple
\* the native lookupTarget filled in.
C10_ArgumentDefaulting ==
    /\ last.op = "TargetMachine.new" =>
         \A i \in DOMAIN last.out.calls :
            LET c == last.out.calls[i]
            IN /\ c.fn \in {"lookupTarget", "createTargetMachine"}
                  => /\ last.args.triple = "" => c.triple = get_default_triple
                     /\ last.args.triple # "" => c.triple = last.args.triple
               /\ c.fn = "createTargetMachine"
                  => /\ last.args.cpu = "" => c.cpu = get_host_cpu_name
                     /\ last.args.cpu # "" => c.cpu = last.args.cpu
    /\ last.op = "TargetMachine.lookup" =>
         \A i \in DOMAIN last.out.calls :
            LET c == last.out.calls[i]
            IN /\ c.fn = "lookupTarget" => c.arch = last.args.arch
               /\ c.fn = "createTargetMachine"
                  => /\ c.cpu = last.args.cpu
                     /\ c.triple = last.args.nat.filled

\* TargetMachine.new with no triple and no cpu has made a target machine.
C10_Witness ==
    /\ last.op = "TargetMachine.new"
    /\ last.args.triple = ""
    /\ last.args.cpu = ""
    /\ Ok

===========================================================================
